---- MODULE Spec2Model ----
(***************************************************************************)
(* A model of the Tasks Kanban plugin: the status-mutation engine          *)
(* (TasksIntegration.updateTaskStatus), the drop handlers and the refresh  *)
(* coordinator of SimpleKanbanRenderer, and the board materializer of      *)
(* TasksQueryProcessor.                                                    *)
(*                                                                         *)
(* Text is modelled character by character: a string is a sequence of      *)
(* one-character strings, so that split, join, includes and the two        *)
(* regular expressions of the engine are computed, not assumed.            *)
(***************************************************************************)
EXTENDS Integers, Sequences, FiniteSets, TLC

(***************************************************************************)
(* Text primitives (JavaScript String methods used by the code)            *)
(***************************************************************************)
NL == "\n"
CR == "\r"

\* \s of a JavaScript regular expression, over the characters of the model
IsSpace(c) == c \in {" ", "\t", CR, NL}

\* what "." of a JavaScript regular expression (no s flag) does not match
IsLineTerminator(c) == c \in {NL, CR}

RECURSIVE Concat(_)
\* Array.prototype.join('') of a sequence of strings
Concat(ss) == IF ss = <<>> THEN <<>> ELSE Head(ss) \o Concat(Tail(ss))

RECURSIVE SplitFrom(_, _, _)
SplitFrom(s, sep, cur) ==
    IF s = <<>> THEN <<cur>>
    ELSE IF Head(s) = sep THEN <<cur>> \o SplitFrom(Tail(s), sep, <<>>)
    ELSE SplitFrom(Tail(s), sep, Append(cur, Head(s)))

\* String.prototype.split(sep) for a one-character separator
Split(s, sep) == SplitFrom(s, sep, <<>>)

RECURSIVE Join(_, _)
\* Array.prototype.join(sep)
Join(parts, sep) ==
    IF parts = <<>> THEN <<>>
    ELSE IF Len(parts) = 1 THEN parts[1]
    ELSE parts[1] \o <<sep>> \o Join(Tail(parts), sep)

\* String.prototype.includes
Includes(s, sub) ==
    \E i \in 0..(Len(s) - Len(sub)) : SubSeq(s, i + 1, i + Len(sub)) = sub

\* String.prototype.slice(0, n)
Slice0(s, n) == SubSeq(s, 1, IF Len(s) < n THEN Len(s) ELSE n)

\* index of the first character at or after i that is not white space (Len+1 if none)
RECURSIVE SkipSpace(_, _)
SkipSpace(s, i) ==
    IF i > Len(s) THEN i
    ELSE IF IsSpace(s[i]) THEN SkipSpace(s, i + 1) ELSE i

(***************************************************************************)
(* The two regular expressions of the mutation engine                      *)
(***************************************************************************)
\* position of the "[" that ^\s*-\s*\[ consumes, or 0 when the prefix does not match
BracketOpen(line) ==
    LET d == SkipSpace(line, 1)
    IN  IF d > Len(line) \/ line[d] # "-" THEN 0
        ELSE LET b == SkipSpace(line, d + 1)
             IN  IF b > Len(line) \/ line[b] # "[" THEN 0 ELSE b

\* line.match(/^\s*-\s*\[.*\]/): a "]" after the "[" with no line terminator between
MatchesCheckbox(line) ==
    LET b == BracketOpen(line)
    IN  /\ b # 0
        /\ \E k \in (b + 1)..Len(line) :
              /\ line[k] = "]"
              /\ \A j \in (b + 1)..(k - 1) : ~IsLineTerminator(line[j])

\* position of the "]" that [^\]]* stops at, or 0 when there is none
BracketClose(line) ==
    LET b == BracketOpen(line)
        ks == {k \in (b + 1)..Len(line) : line[k] = "]"}
    IN  IF b = 0 \/ ks = {} THEN 0
        ELSE CHOOSE k \in ks : \A j \in ks : k <= j

\* (\]\s*.*)$ : after the "]" and white space, no line terminator up to the end
TailMatches(line, k) ==
    \E w \in (k + 1)..(SkipSpace(line, k + 1)) :
        \A j \in w..Len(line) : ~IsLineTerminator(line[j])

\* the line with the wrong capture group: the marker is appended after "]"
updateTaskLineStatusAfterBracket(line, newStatusSymbol) ==
    LET b == BracketOpen(line)
        k == BracketClose(line)
    IN  IF k # 0 /\ TailMatches(line, k)
        THEN SubSeq(line, 1, k) \o <<newStatusSymbol>> \o SubSeq(line, k + 1, Len(line))
        ELSE line

\* updateTaskLineStatus: /^(\s*-\s*\[)[^\]]*(\]\s*.*)$/ -> match[1] + symbol + match[2]
updateTaskLineStatus(line, newStatusSymbol) ==
    LET b == BracketOpen(line)
        k == BracketClose(line)
    IN  IF k # 0 /\ TailMatches(line, k)
        THEN SubSeq(line, 1, b) \o <<newStatusSymbol>> \o SubSeq(line, k, Len(line))
        ELSE line

\* the loop keeping the last matching line instead of breaking at the first
FindTaskLineLast(lines, taskDescription) ==
    LET hits == {i \in 1..Len(lines) :
                    Includes(lines[i], taskDescription) /\ MatchesCheckbox(lines[i])}
    IN  IF hits = {} THEN 0 ELSE CHOOSE i \in hits : \A j \in hits : j <= i

\* the loop falling back to the first line when no line matches
FindTaskLineOrFirst(lines, taskDescription) ==
    LET hits == {i \in 1..Len(lines) :
                    Includes(lines[i], taskDescription) /\ MatchesCheckbox(lines[i])}
    IN  IF hits = {} THEN 1 ELSE CHOOSE i \in hits : \A j \in hits : i <= j

\* the loop of updateTaskStatus: lowest index whose line includes the description
\* and matches the checkbox pattern; 0 stands for actualLineIndex === -1
FindTaskLine(lines, taskDescription) ==
    LET hits == {i \in 1..Len(lines) :
                    Includes(lines[i], taskDescription) /\ MatchesCheckbox(lines[i])}
    IN  IF hits = {} THEN 0 ELSE CHOOSE i \in hits : \A j \in hits : i <= j

\* a saveEditedTask that replaces every line its loop's test accepts
saveEditedTaskEveryLine(file, taskDescription, editedTaskLine) ==
    LET lines == Split(file.content, NL)
        Accepts(i) == Includes(lines[i], taskDescription) /\ MatchesCheckbox(lines[i])
    IN  IF ~file.exists \/ FindTaskLine(lines, taskDescription) = 0
        THEN [settled |-> TRUE, threw |-> TRUE, wrote |-> FALSE, content |-> file.content]
        ELSE [settled |-> TRUE, threw |-> FALSE, wrote |-> TRUE,
              content |-> Join([i \in 1..Len(lines) |->
                                   IF Accepts(i) THEN editedTaskLine ELSE lines[i]], NL)]

\* saveEditedTask: whether it threw, whether vault.modify ran, and the text of the
\* resource afterwards
saveEditedTask(file, taskDescription, editedTaskLine) ==
    LET lines == Split(file.content, NL)
        actualLineIndex == FindTaskLine(lines, taskDescription)
    IN  IF ~file.exists \/ actualLineIndex = 0
        THEN [settled |-> TRUE, threw |-> TRUE, wrote |-> FALSE, content |-> file.content]
        ELSE [settled |-> TRUE, threw |-> FALSE, wrote |-> TRUE,
              content |-> Join([lines EXCEPT ![actualLineIndex] = editedTaskLine], NL)]

(***************************************************************************)
(* Status configuration (getSettings().statusSettings) and the mappers     *)
(***************************************************************************)
Status(symbol, name, type) == [symbol |-> symbol, name |-> name, type |-> type]

\* [...coreStatuses, ...customStatuses] of a stock Tasks installation
DefaultStatuses ==
    << Status(" ", "Todo", "TODO"), Status("x", "Done", "DONE"),
       Status("/", "In Progress", "IN_PROGRESS"), Status("-", "Cancelled", "CANCELLED") >>

\* a user who added a second status of type TODO
CustomStatuses == Append(DefaultStatuses, Status("!", "Important", "TODO"))

\* a user who named the core statuses after their types
TypeNamedStatuses ==
    << Status(" ", "TODO", "TODO"), Status("x", "DONE", "DONE") >>

\* Array.prototype.find: the first of the indices of the matching elements, 0 when none
FindIndex(hits) ==
    IF hits = {} THEN 0 ELSE CHOOSE i \in hits : \A j \in hits : i <= j

\* JavaScript a || b on strings: the empty string is falsy
OrElse(a, b) == IF a # "" THEN a ELSE b

\* the fallback switch of getStatusSymbol
FallbackSymbol(statusType) ==
    CASE statusType = "TODO" -> " "
      [] statusType = "IN_PROGRESS" -> "/"
      [] statusType = "DONE" -> "x"
      [] statusType = "CANCELLED" -> "-"
      [] OTHER -> " "

\* getStatusSymbol: first descriptor matching on type, name or symbol, else the switch
getStatusSymbol(allStatuses, statusType) ==
    LET Match(s) == s.type = statusType \/ s.name = statusType \/ s.symbol = statusType
        i == FindIndex({k \in 1..Len(allStatuses) : Match(allStatuses[k])})
    IN  IF i # 0 THEN allStatuses[i].symbol ELSE FallbackSymbol(statusType)

\* mapColumnToStatusType: first descriptor matching on name, type or symbol gives
\* type || name; else the switch, whose default returns the column name itself
mapColumnToStatusType(allStatuses, columnName) ==
    LET Match(s) == s.name = columnName \/ s.type = columnName \/ s.symbol = columnName
        i == FindIndex({k \in 1..Len(allStatuses) : Match(allStatuses[k])})
    IN  IF i # 0 THEN OrElse(allStatuses[i].type, allStatuses[i].name)
        ELSE CASE columnName \in {"TODO", "To Do"} -> "TODO"
               [] columnName \in {"IN_PROGRESS", "In Progress"} -> "IN_PROGRESS"
               [] columnName \in {"DONE", "Done"} -> "DONE"
               [] columnName \in {"CANCELLED", "Cancelled"} -> "CANCELLED"
               [] OTHER -> columnName

\* String.prototype.toLowerCase / toUpperCase of the strings of the model that have
\* letters; the other strings of the model (" ", "/", "-", "!") have none
CaseTable ==
    << [str |-> "BLOCKED", lower |-> "blocked", upper |-> "BLOCKED"],
       [str |-> "Blocked", lower |-> "blocked", upper |-> "BLOCKED"],
       [str |-> "CANCELLED", lower |-> "cancelled", upper |-> "CANCELLED"],
       [str |-> "Cancelled", lower |-> "cancelled", upper |-> "CANCELLED"],
       [str |-> "DONE", lower |-> "done", upper |-> "DONE"],
       [str |-> "Done", lower |-> "done", upper |-> "DONE"],
       [str |-> "HIGH", lower |-> "high", upper |-> "HIGH"],
       [str |-> "High", lower |-> "high", upper |-> "HIGH"],
       [str |-> "IMPORTANT", lower |-> "important", upper |-> "IMPORTANT"],
       [str |-> "IN PROGRESS", lower |-> "in progress", upper |-> "IN PROGRESS"],
       [str |-> "IN-PROGRESS", lower |-> "in-progress", upper |-> "IN-PROGRESS"],
       [str |-> "IN_PROGRESS", lower |-> "in_progress", upper |-> "IN_PROGRESS"],
       [str |-> "Important", lower |-> "important", upper |-> "IMPORTANT"],
       [str |-> "In Progress", lower |-> "in progress", upper |-> "IN PROGRESS"],
       [str |-> "TO DO", lower |-> "to do", upper |-> "TO DO"],
       [str |-> "TODO", lower |-> "todo", upper |-> "TODO"],
       [str |-> "To Do", lower |-> "to do", upper |-> "TO DO"],
       [str |-> "Todo", lower |-> "todo", upper |-> "TODO"],
       [str |-> "UNKNOWN", lower |-> "unknown", upper |-> "UNKNOWN"],
       [str |-> "Unknown", lower |-> "unknown", upper |-> "UNKNOWN"],
       [str |-> "X", lower |-> "x", upper |-> "X"],
       [str |-> "blocked", lower |-> "blocked", upper |-> "BLOCKED"],
       [str |-> "cancelled", lower |-> "cancelled", upper |-> "CANCELLED"],
       [str |-> "done", lower |-> "done", upper |-> "DONE"],
       [str |-> "high", lower |-> "high", upper |-> "HIGH"],
       [str |-> "important", lower |-> "important", upper |-> "IMPORTANT"],
       [str |-> "in progress", lower |-> "in progress", upper |-> "IN PROGRESS"],
       [str |-> "in-progress", lower |-> "in-progress", upper |-> "IN-PROGRESS"],
       [str |-> "in_progress", lower |-> "in_progress", upper |-> "IN_PROGRESS"],
       [str |-> "to do", lower |-> "to do", upper |-> "TO DO"],
       [str |-> "todo", lower |-> "todo", upper |-> "TODO"],
       [str |-> "unknown", lower |-> "unknown", upper |-> "UNKNOWN"],
       [str |-> "x", lower |-> "x", upper |-> "X"] >>

toLowerCase(str) ==
    IF \E i \in 1..Len(CaseTable) : CaseTable[i].str = str
    THEN CaseTable[CHOOSE i \in 1..Len(CaseTable) : CaseTable[i].str = str].lower
    ELSE str

toUpperCase(str) ==
    IF \E i \in 1..Len(CaseTable) : CaseTable[i].str = str
    THEN CaseTable[CHOOSE i \in 1..Len(CaseTable) : CaseTable[i].str = str].upper
    ELSE str

\* mapStatusToType whose switch has lost every case but the default
mapStatusToTypeUpperCase(allStatuses, status) ==
    LET Match(s) == s.symbol = status
        i == FindIndex({k \in 1..Len(allStatuses) : Match(allStatuses[k])})
    IN  IF i # 0 THEN OrElse(allStatuses[i].type, OrElse(allStatuses[i].name, status))
        ELSE toUpperCase(status)

\* mapStatusToType: first descriptor whose symbol is the marker gives type || name ||
\* marker; else the switch on the lower-cased marker, whose default upper-cases it
mapStatusToType(allStatuses, status) ==
    LET Match(s) == s.symbol = status
        i == FindIndex({k \in 1..Len(allStatuses) : Match(allStatuses[k])})
        lower == toLowerCase(status)
    IN  IF i # 0 THEN OrElse(allStatuses[i].type, OrElse(allStatuses[i].name, status))
        ELSE CASE lower \in {" ", "todo"} -> "TODO"
               [] lower \in {"/", "in_progress", "in-progress"} -> "IN_PROGRESS"
               [] lower \in {"x", "done"} -> "DONE"
               [] lower \in {"-", "cancelled"} -> "CANCELLED"
               [] OTHER -> toUpperCase(status)

(***************************************************************************)
(* Insertion-ordered objects ({ [key: string]: T }) as sequences of        *)
(* [key, val] entries with distinct keys                                   *)
(***************************************************************************)
Keys(obj) == [i \in 1..Len(obj) |-> obj[i].key]

Contains(seq, x) == \E i \in 1..Len(seq) : seq[i] = x

HasKey(obj, k) == \E i \in 1..Len(obj) : obj[i].key = k

\* obj[k], with none standing for undefined
Lookup(obj, k, none) ==
    IF HasKey(obj, k) THEN obj[CHOOSE i \in 1..Len(obj) : obj[i].key = k].val ELSE none

\* obj[k] = v: an existing key keeps its position, a new key goes last
Assign(obj, k, v) ==
    IF HasKey(obj, k)
    THEN [i \in 1..Len(obj) |-> IF obj[i].key = k THEN [key |-> k, val |-> v] ELSE obj[i]]
    ELSE Append(obj, [key |-> k, val |-> v])

\* the strings of the model in UTF-16 code unit order, which Array.prototype.sort uses
CodeUnitOrder ==
    << "", "!", "%%1%%IN_PROGRESS", "%%2%%TODO", "%%3%%DONE", "%%4%%CANCELLED",
       "-", "/", "CANCELLED", "Cancelled", "DONE", "Done", "High", "IN_PROGRESS", "Important",
       "In Progress", "None", "TODO", "Todo", "Ungrouped", "Unknown", "a.md", "b.md", "x" >>

CodeUnitRank(str) == CHOOSE i \in 1..Len(CodeUnitOrder) : CodeUnitOrder[i] = str

RECURSIVE SortStrings(_)
\* Array.prototype.sort() with the default comparator (selection of the least)
SortStrings(seq) ==
    IF seq = <<>> THEN <<>>
    ELSE LET m == CHOOSE i \in 1..Len(seq) :
                      \A j \in 1..Len(seq) :
                          \/ CodeUnitRank(seq[i]) < CodeUnitRank(seq[j])
                          \/ (CodeUnitRank(seq[i]) = CodeUnitRank(seq[j]) /\ i <= j)
         IN  <<seq[m]>> \o SortStrings(SubSeq(seq, 1, m - 1) \o SubSeq(seq, m + 1, Len(seq)))

(***************************************************************************)
(* Board Materializer (TasksQueryProcessor)                                *)
(***************************************************************************)
\* status.name || status.type || ''
DisplayName(status) == OrElse(status.name, status.type)

RECURSIVE PushNew(_, _)
\* for (x of xs) if (!acc.includes(x)) acc.push(x)
PushNew(acc, xs) ==
    IF xs = <<>> THEN acc
    ELSE PushNew(IF Contains(acc, Head(xs)) THEN acc ELSE Append(acc, Head(xs)), Tail(xs))

\* the fixed workflow rank of getOrderedStatusNames
workflowOrder == <<"TODO", "IN_PROGRESS", "DONE", "CANCELLED", "NON_TASK", "EMPTY">>

\* statusTypeToName.get(type): the display name of the last descriptor of that type
StatusTypeToName(allStatuses, type) ==
    LET hits == {i \in 1..Len(allStatuses) : allStatuses[i].type = type}
    IN  IF hits = {} THEN ""
        ELSE DisplayName(allStatuses[CHOOSE i \in hits : \A j \in hits : j <= i])

\* displayNameToStatus.get(key) || allStatuses.find(type or name = key): index, 0 if none
MatchingStatusIndex(allStatuses, key) ==
    LET hits == {i \in 1..Len(allStatuses) :
                    DisplayName(allStatuses[i]) = key \/ allStatuses[i].type = key}
        Named(st) == st.type = key \/ st.name = key
    IN  IF hits # {} THEN CHOOSE i \in hits : \A j \in hits : j <= i
        ELSE FindIndex({k \in 1..Len(allStatuses) : Named(allStatuses[k])})

RECURSIVE UserOrderedNames(_, _, _)
\* the first loop of the user-order branch of getOrderedStatusNames
UserOrderedNames(allStatuses, order, acc) ==
    IF order = <<>> THEN acc
    ELSE LET i == MatchingStatusIndex(allStatuses, Head(order))
             next == IF i = 0 THEN acc ELSE PushNew(acc, <<DisplayName(allStatuses[i])>>)
         IN  UserOrderedNames(allStatuses, Tail(order), next)

RECURSIVE WorkflowNames(_, _)
\* the first loop of the default branch: one name per workflow type that has one
WorkflowNames(allStatuses, types) ==
    IF types = <<>> THEN <<>>
    ELSE LET n == StatusTypeToName(allStatuses, Head(types))
         IN  (IF n # "" THEN <<n>> ELSE <<>>) \o WorkflowNames(allStatuses, Tail(types))

\* getOrderedStatusNames
getOrderedStatusNames(allStatuses, statusOrder) ==
    LET names == [i \in 1..Len(allStatuses) |-> DisplayName(allStatuses[i])]
    IN  IF Len(statusOrder) > 0
        THEN PushNew(UserOrderedNames(allStatuses, statusOrder, <<>>), names)
        ELSE PushNew(WorkflowNames(allStatuses, workflowOrder), names)

\* statusId.split('%%') for the identifiers the upstream categorizer produces
SplitPercent(statusId) ==
    CASE statusId = "%%1%%IN_PROGRESS" -> <<"", "1", "IN_PROGRESS">>
      [] statusId = "%%2%%TODO" -> <<"", "2", "TODO">>
      [] statusId = "%%3%%DONE" -> <<"", "3", "DONE">>
      [] statusId = "%%4%%CANCELLED" -> <<"", "4", "CANCELLED">>
      [] statusId = "%%9%%" -> <<"", "9", "">>
      [] statusId = "%%High" -> <<"", "High">>
      [] OTHER -> <<statusId>>

\* convertStatusIdToDisplayName
convertStatusIdToDisplayName(allStatuses, statusId) ==
    LET parts == SplitPercent(statusId)
        statusType == IF Len(parts) > 1
                      THEN (IF Len(parts) > 2 THEN parts[3] ELSE statusId)
                      ELSE statusId
        Match(st) == st.type = statusType \/ st.symbol = statusType \/ st.name = statusType
        i == FindIndex({k \in 1..Len(allStatuses) : Match(allStatuses[k])})
    IN  IF i # 0
        THEN OrElse(allStatuses[i].name, OrElse(allStatuses[i].type, statusType))
        ELSE statusType

RECURSIVE FillOrdered(_, _, _)
\* for (statusName of orderedStatusNames) ordered[statusName] = populated[statusName] || []
FillOrdered(ordered, populated, names) ==
    IF names = <<>> THEN ordered
    ELSE FillOrdered(Assign(ordered, Head(names), Lookup(populated, Head(names), <<>>)),
                     populated, Tail(names))

RECURSIVE AddMissing(_, _)
\* for ([name, tasks] of Object.entries(populated)) if (!ordered[name]) ordered[name] = tasks
AddMissing(ordered, entries) ==
    IF entries = <<>> THEN ordered
    ELSE AddMissing(IF HasKey(ordered, Head(entries).key) THEN ordered
                    ELSE Append(ordered, Head(entries)), Tail(entries))

\* createOrderedGroupsWithEmptyColumns
createOrderedGroupsWithEmptyColumns(populatedGroups, orderedStatusNames) ==
    AddMissing(FillOrdered(<<>>, populatedGroups, orderedStatusNames), populatedGroups)

RECURSIVE SingleGroups(_, _, _)
\* the loop of convertToSingleGrouping over queryResult.taskGroups.groups
SingleGroups(allStatuses, groups, tempGroups) ==
    IF groups = <<>> THEN tempGroups
    ELSE LET g == Head(groups)
             rawGroupName == IF Len(g.groups) = 0 THEN "Ungrouped"
                             ELSE OrElse(g.groups[Len(g.groups)], "Ungrouped")
             displayGroupName == convertStatusIdToDisplayName(allStatuses, rawGroupName)
         IN  SingleGroups(allStatuses, Tail(groups),
                 Assign(tempGroups, displayGroupName,
                        Lookup(tempGroups, displayGroupName, <<>>) \o g.tasks))

\* convertToSingleGrouping
convertToSingleGrouping(allStatuses, statusOrder, groups) ==
    createOrderedGroupsWithEmptyColumns(SingleGroups(allStatuses, groups, <<>>),
                                        getOrderedStatusNames(allStatuses, statusOrder))

RECURSIVE DualGroups(_, _, _)
\* the loop of convertToDualGrouping: groups with fewer than two levels are skipped
DualGroups(allStatuses, groups, swimLanes) ==
    IF groups = <<>> THEN swimLanes
    ELSE LET g == Head(groups)
             swimLaneName ==
                 convertStatusIdToDisplayName(allStatuses, OrElse(g.groups[1], "Ungrouped"))
             columnName ==
                 convertStatusIdToDisplayName(allStatuses, OrElse(g.groups[2], "Ungrouped"))
             lane == Lookup(swimLanes, swimLaneName, <<>>)
         IN  IF Len(g.groups) < 2 THEN DualGroups(allStatuses, Tail(groups), swimLanes)
             ELSE DualGroups(allStatuses, Tail(groups),
                     Assign(swimLanes, swimLaneName,
                            Assign(lane, columnName,
                                   Lookup(lane, columnName, <<>>) \o g.tasks)))

RECURSIVE OrderedLanes(_, _, _)
\* the loop of createOrderedSwimLanes over the sorted lane names
OrderedLanes(swimLanes, names, orderedStatusNames) ==
    IF names = <<>> THEN <<>>
    ELSE LET own == Lookup(swimLanes, Head(names), <<>>)
         IN  <<[key |-> Head(names),
                val |-> AddMissing(FillOrdered(<<>>, own, orderedStatusNames), own)]>>
             \o OrderedLanes(swimLanes, Tail(names), orderedStatusNames)

\* createOrderedSwimLanes
createOrderedSwimLanes(swimLanes, orderedStatusNames) ==
    OrderedLanes(swimLanes, SortStrings(Keys(swimLanes)), orderedStatusNames)

\* convertToDualGrouping: the swimLanes of its result
convertToDualGrouping(allStatuses, statusOrder, groups) ==
    createOrderedSwimLanes(DualGroups(allStatuses, groups, <<>>),
                           getOrderedStatusNames(allStatuses, statusOrder))

\* convertQueryResultToGroupedTasks: dual grouping is decided by the first group alone
convertQueryResultToGroupedTasks(allStatuses, statusOrder, groups) ==
    IF Len(groups) > 0 /\ Len(groups[1].groups) >= 2
    THEN [isDualGrouping |-> TRUE, groupedTasks |-> <<>>,
          swimLanes |-> convertToDualGrouping(allStatuses, statusOrder, groups)]
    ELSE [isDualGrouping |-> FALSE, swimLanes |-> <<>>,
          groupedTasks |-> convertToSingleGrouping(allStatuses, statusOrder, groups)]

(***************************************************************************)
(* Order Resolver and rendering (SimpleKanbanRenderer)                     *)
(***************************************************************************)
\* TasksIntegration.getStatusTypes: type || name || 'UNKNOWN' of every descriptor
getStatusTypes(allStatuses) ==
    IF Len(allStatuses) > 0
    THEN [i \in 1..Len(allStatuses) |->
             OrElse(allStatuses[i].type, OrElse(allStatuses[i].name, "UNKNOWN"))]
    ELSE <<"TODO", "IN_PROGRESS", "DONE", "CANCELLED">>

RECURSIVE PushAvailable(_, _)
\* for (x of order) if (availableColumns.includes(x)) orderedColumns.push(x)
PushAvailable(order, availableColumns) ==
    IF order = <<>> THEN <<>>
    ELSE (IF Contains(availableColumns, Head(order)) THEN <<Head(order)>> ELSE <<>>)
         \o PushAvailable(Tail(order), availableColumns)

priorityOrder == <<"Highest", "High", "Medium", "Low", "Lowest", "None">>

\* a getColumnOrder that disregards the user's status order
getColumnOrderIgnoringSetting(groupedTasks, groupBy, statusOrderSetting, allStatuses) ==
    LET availableColumns == Keys(groupedTasks)
    IN  PushNew(PushAvailable(getStatusTypes(allStatuses), availableColumns), availableColumns)

\* getColumnOrder
getColumnOrder(groupedTasks, groupBy, statusOrderSetting, allStatuses) ==
    LET availableColumns == Keys(groupedTasks)
        statusOrder == IF Len(statusOrderSetting) > 0 THEN statusOrderSetting
                       ELSE getStatusTypes(allStatuses)
    IN  IF groupBy = "" \/ groupBy = "status"
        THEN PushNew(PushAvailable(statusOrder, availableColumns), availableColumns)
        ELSE IF groupBy = "priority"
        THEN PushNew(PushAvailable(priorityOrder, availableColumns), availableColumns)
        ELSE SortStrings(availableColumns)

\* the columns renderKanbanBoard creates: one per key of getColumnOrder(.., 'status')
renderKanbanBoard(groupedTasks, statusOrderSetting, allStatuses) ==
    LET columnOrder == getColumnOrder(groupedTasks, "status", statusOrderSetting, allStatuses)
    IN  [i \in 1..Len(columnOrder) |->
            [key |-> columnOrder[i], val |-> Lookup(groupedTasks, columnOrder[i], <<>>)]]

\* the rows renderSwimLaneBoard creates: the column order of the first lane for every lane
renderSwimLaneBoard(swimLanes, statusOrderSetting, allStatuses) ==
    LET swimLaneNames == SortStrings(Keys(swimLanes))
        columnOrder ==
            IF Len(swimLaneNames) = 0 THEN <<>>
            ELSE getColumnOrder(Lookup(swimLanes, swimLaneNames[1], <<>>), "status",
                                statusOrderSetting, allStatuses)
    IN  [l \in 1..Len(swimLaneNames) |->
            [key |-> swimLaneNames[l],
             val |-> [i \in 1..Len(columnOrder) |->
                        [key |-> columnOrder[i],
                         val |-> Lookup(Lookup(swimLanes, swimLaneNames[l], <<>>),
                                        columnOrder[i], <<>>)]]]]

(***************************************************************************)
(* The collaborators at the boundary: the vault's text resource and the    *)
(* query evaluator that turns its lines into grouped Task Records          *)
(***************************************************************************)
NotesPath == <<"N", ".", "m", "d">>

LineNote == <<"n">>
LineTodoA == <<"-", " ", "[", " ", "]", " ", "a">>
LineTodoAHigh == <<"-", " ", "[", " ", "]", " ", "a", " ", "^">>
LineBangA == <<"-", " ", "[", "!", "]", " ", "a">>
LineBangAHigh == <<"-", " ", "[", "!", "]", " ", "a", " ", "^">>
LineTodoB == <<"-", " ", "[", " ", "]", " ", "b">>
LineDoneB == <<"-", " ", "[", "x", "]", " ", "b">>
LineDoingB == <<" ", "-", " ", "[", "/", "]", " ", "b", " ", "[", "l", "]">>
LineDoneAB == <<"-", " ", "[", "x", "]", " ", "a", "b">>
LineBangB == <<"-", " ", "[", "!", "]", " ", "b">>

FileBasic == Join(<<LineNote, LineTodoA, LineDoneB>>, NL)
FileOverlap == Join(<<LineDoneAB, LineTodoA>>, NL)
FilePriority == Join(<<LineNote, LineTodoAHigh, LineDoingB>>, NL)
FileBang == Join(<<LineNote, LineBangA, LineTodoB>>, NL)
FileBangHigh == Join(<<LineBangAHigh, LineTodoB>>, NL)
FileBangLow == Join(<<LineTodoAHigh, LineBangB>>, NL)

\* the status of a marker: the configured descriptor, else an unknown status of type TODO
StatusOfSymbol(allStatuses, symbol) ==
    LET Match(st) == st.symbol = symbol
        i == FindIndex({k \in 1..Len(allStatuses) : Match(allStatuses[k])})
    IN  IF i # 0 THEN allStatuses[i] ELSE Status(symbol, "Unknown", "TODO")

\* a checkbox line with a one-character marker
IsTaskLine(line) ==
    LET b == BracketOpen(line)
    IN  b # 0 /\ Len(line) >= b + 2 /\ line[b + 2] = "]" /\ ~IsLineTerminator(line[b + 1])

\* the Task Record of a checkbox line: the description is the text after the marker
\* without a trailing priority annotation
TaskOfLine(allStatuses, line, lineNumber) ==
    LET b == BracketOpen(line)
        body == SubSeq(line, SkipSpace(line, b + 3), Len(line))
        high == Len(body) >= 2 /\ SubSeq(body, Len(body) - 1, Len(body)) = <<" ", "^">>
    IN  [description |-> IF high THEN SubSeq(body, 1, Len(body) - 2) ELSE body,
         status |-> StatusOfSymbol(allStatuses, line[b + 1]),
         priority |-> IF high THEN "High" ELSE "None",
         path |-> NotesPath,
         lineNumber |-> lineNumber]

RECURSIVE TasksOfLines(_, _, _)
\* the Task Records of a text, in line order, with 0-based line numbers
TasksOfLines(allStatuses, lines, n) ==
    IF lines = <<>> THEN <<>>
    ELSE (IF IsTaskLine(Head(lines)) THEN <<TaskOfLine(allStatuses, Head(lines), n)>> ELSE <<>>)
         \o TasksOfLines(allStatuses, Tail(lines), n + 1)

\* the category identifier the evaluator gives a status type
StatusTypeId(type) ==
    CASE type = "IN_PROGRESS" -> "%%1%%IN_PROGRESS"
      [] type = "TODO" -> "%%2%%TODO"
      [] type = "DONE" -> "%%3%%DONE"
      [] type = "CANCELLED" -> "%%4%%CANCELLED"
      [] OTHER -> type

\* the hierarchy of group names of one task under a "group by" instruction
GroupNames(task, grouping) ==
    CASE grouping = "status.name" -> <<task.status.name>>
      [] grouping = "status.type" -> <<StatusTypeId(task.status.type)>>
      [] grouping = "priority" -> <<task.priority>>
      [] grouping = "priority+status.name" -> <<task.priority, task.status.name>>
      [] grouping = "status.name where a" -> <<task.status.name>>

RECURSIVE Distinct(_)
\* the elements of a sequence, each once, in order of first occurrence
Distinct(seq) == PushNew(<<>>, seq)

\* the tasks whose group names start with the given names, in task order
TasksUnder(tasks, grouping, names) ==
    LET Under(t) == SubSeq(GroupNames(t, grouping), 1, Len(names)) = names
    IN  SelectSeq(tasks, Under)

RECURSIVE GroupsUnder(_, _, _, _)
\* the groups of a grouped result: sorted by name, level by level
GroupsUnder(tasks, grouping, depth, prefix) ==
    LET mine == TasksUnder(tasks, grouping, prefix)
        level == Len(prefix) + 1
        names == SortStrings(Distinct([i \in 1..Len(mine) |->
                                          GroupNames(mine[i], grouping)[level]]))
        Sub[i \in 0..Len(names)] ==
            IF i = 0 THEN <<>>
            ELSE Sub[i - 1] \o GroupsUnder(tasks, grouping, depth, Append(prefix, names[i]))
    IN  IF Len(prefix) = depth THEN <<[groups |-> prefix, tasks |-> mine]>>
        ELSE Sub[Len(names)]

\* queryResult.taskGroups.groups for the text of the resource
QueryGroups(allStatuses, grouping, content) ==
    LET tasks == TasksOfLines(allStatuses, Split(content, NL), 0)
        depth == IF grouping = "priority+status.name" THEN 2 ELSE 1
    IN  IF tasks = <<>> THEN <<>> ELSE GroupsUnder(tasks, grouping, depth, <<>>)

(***************************************************************************)
(* State                                                                   *)
(***************************************************************************)
VARIABLES
    vault,           \* the text of the resource Notes.md
    fileExists,      \* whether getAbstractFileByPath resolves its path
    allStatuses,     \* the status configuration
    grouping,        \* the "group by" of the code block's query
    board,           \* what the container element displays
    ops,             \* one record per drop, in drop order
    isUpdating,      \* SimpleKanbanRenderer.isUpdating
    refreshTimeout,  \* SimpleKanbanRenderer.refreshTimeout is not null
    renderTimers,    \* live timers set by debouncedRender
    clearTimers,     \* live timers that will clear isUpdating
    budget,          \* how many more things the user and other editors will do
    burst,           \* 'modify' notifications that scheduled a refresh since the last render (ghost)
    loaded,          \* the renderer (a MarkdownRenderChild) has not been unloaded
    call,            \* FunctionSpec: a mapper or materializer call, its arguments and results
    unseen           \* a 'modify' notification was ignored since the last render() (ghost)

vars == <<vault, fileExists, allStatuses, grouping, board, ops, isUpdating,
          refreshTimeout, renderTimers, clearTimers, budget, burst, loaded, call,
          unseen>>

\* how many things the user and other editors do to the board of the basic note
\* under the type-named status configuration
MaxEvents == 2

\* how many things the user and other editors do to each of the other boards
MaxOtherEvents == 1

\* whether the user or another editor may still act
MayAct == budget > 0

\* settings.statusOrder of the renderer modelled by Spec
NoStatusOrder == <<>>

\* saveEditedTask has not settled
NoOutcome == [settled |-> FALSE, threw |-> FALSE, wrote |-> FALSE, content |-> <<>>]

\* no mapper, materializer or saveEditedTask call is being followed
NoCall ==
    [kind |-> "none", statuses |-> <<>>, statusOrder |-> <<>>, groups |-> <<>>,
     values |-> <<>>, fns |-> <<>>, rendered |-> FALSE, columns |-> <<>>, lanes |-> <<>>,
     file |-> [exists |-> FALSE, content |-> <<>>], description |-> <<>>,
     editedTaskLine |-> <<>>, outcome |-> NoOutcome]

(***************************************************************************)
(* render(): query, materialize, display                                   *)
(***************************************************************************)
\* query.error: the instruction "group by status.nme" is one the evaluator does not
\* understand
QuerySyntaxError(groupBy) ==
    IF groupBy = "status.nme" THEN "do not understand query" ELSE ""

\* queryResult.searchErrorMessage: the query "status.name where a" filters by
\* task.description.match('a').length > 0, which throws on a description without an a
SearchErrorMessage(groupBy, tasks) ==
    IF groupBy = "status.name where a"
       /\ \E i \in 1..Len(tasks) : ~Contains(tasks[i].description, "a")
    THEN "Search failed"
    ELSE ""

\* an executeQuery that reports query.error only
executeQueryErrorSyntaxOnly(statuses, groupBy, content) == QuerySyntaxError(groupBy)

\* executeQuery: the error field of its result
executeQueryError(statuses, groupBy, content) ==
    OrElse(QuerySyntaxError(groupBy),
           SearchErrorMessage(groupBy, TasksOfLines(statuses, Split(content, NL), 0)))

\* showError: the container is emptied and shows the message alone
showError(message) ==
    [kind |-> "error", columns |-> <<>>, lanes |-> <<>>, message |-> message]

\* the board render() displays for a text of the resource
RenderedBoard(statuses, groupBy, content) ==
    LET error == executeQueryError(statuses, groupBy, content)
        result == convertQueryResultToGroupedTasks(statuses, NoStatusOrder,
                      QueryGroups(statuses, groupBy, content))
    IN  IF error # "" THEN showError(<<"Query error: ", error>>)
        ELSE IF result.isDualGrouping
        THEN [kind |-> "swim", columns |-> <<>>, message |-> <<>>,
              lanes |-> renderSwimLaneBoard(result.swimLanes, NoStatusOrder, statuses)]
        ELSE [kind |-> "flat", lanes |-> <<>>, message |-> <<>>,
              columns |-> renderKanbanBoard(result.groupedTasks, NoStatusOrder, statuses)]

\* the text the evaluator sees: a deleted resource has no tasks
VisibleText == IF fileExists THEN vault ELSE <<>>

\* the cells of the displayed board: [lane, key, val]
Cells(b) ==
    IF b.kind = "flat"
    THEN {[lane |-> "", key |-> b.columns[i].key, val |-> b.columns[i].val] :
             i \in 1..Len(b.columns)}
    ELSE UNION {{[lane |-> b.lanes[l].key, key |-> b.lanes[l].val[i].key,
                  val |-> b.lanes[l].val[i].val] : i \in 1..Len(b.lanes[l].val)} :
                l \in 1..Len(b.lanes)}

\* the cards of the displayed board: a task and the column key of its cell
Cards(b) ==
    UNION {{[task |-> c.val[i], column |-> c.key] : i \in 1..Len(c.val)} : c \in Cells(b)}

ColumnKeys(b) == {c.key : c \in Cells(b)}

(***************************************************************************)
(* Drag payload and the two drop handlers                                  *)
(***************************************************************************)
DescriptionSliceLength == 50

Digits == <<"0", "1", "2", "3", "4", "5", "6", "7", "8", "9">>

\* `${n}` for a one-digit line number
NumberToString(n) == <<Digits[n + 1]>>

\* parseInt(str) || 0 for a one-digit string
parseIntOrZero(str) ==
    IF Len(str) = 1 /\ \E d \in 1..10 : Digits[d] = str[1]
    THEN (CHOOSE d \in 1..10 : Digits[d] = str[1]) - 1
    ELSE 0

\* setupCardDragHandlers: the JSON the dragstart handler stores
DragData(task) ==
    LET taskPath == task.path
        taskLineNumber == task.lineNumber
        sliced == Slice0(task.description, DescriptionSliceLength)
    IN  [taskId |-> (IF taskPath # <<>> THEN taskPath ELSE <<"u", "n", "k", "n", "o", "w", "n">>)
                    \o <<":">> \o NumberToString(taskLineNumber) \o <<":">>
                    \o (IF sliced # <<>> THEN sliced ELSE <<"n", "o", "-", "d", "e", "s", "c">>),
         originalColumn |-> task.status.type,
         taskDescription |-> task.description,
         taskPath |-> taskPath,
         taskLineNumber |-> taskLineNumber]

\* setupDropZone: the two early returns of the flat-column drop handler
FlatDropProceeds(data, targetColumn) ==
    /\ data.originalColumn # targetColumn
    /\ data.taskPath # <<>> /\ data.taskLineNumber # 0

\* setupSwimLaneDropZone: currentColumn is read from a payload that has no such field,
\* so it is undefined and the early return never happens
SwimDropProceeds(data, targetColumn) == TRUE

\* the task object the flat-column drop handler builds
FlatTaskForUpdate(data) ==
    [description |-> data.taskDescription, path |-> data.taskPath,
     lineNumber |-> data.taskLineNumber]

\* the task object the swim-lane drop handler parses out of taskId
SwimTaskForUpdate(data) ==
    LET parts == Split(data.taskId, ":")
    IN  [description |-> Join(SubSeq(parts, 3, Len(parts)), ":"),
         path |-> parts[1],
         lineNumber |-> parseIntOrZero(parts[2])]

(***************************************************************************)
(* updateTaskStatus: what it computes from the text it read                *)
(***************************************************************************)
\* the text updateTaskStatus would write, given the text it read
UpdatedContent(content, taskDescription, statusSymbol) ==
    LET lines == Split(content, NL)
        actualLineIndex == FindTaskLine(lines, taskDescription)
    IN  IF actualLineIndex = 0 THEN content
        ELSE Join([lines EXCEPT ![actualLineIndex] =
                      updateTaskLineStatus(lines[actualLineIndex], statusSymbol)], NL)

\* debouncedRender with the clearTimeout left out
debouncedRenderNoClear(handle, timers) == timers + 1

\* debouncedRender: the live render timers after it cancels the pending one and sets one
debouncedRender(handle, timers) ==
    (IF handle /\ timers > 0 THEN timers - 1 ELSE timers) + 1

Scenario(text, statuses, groupBy, events) ==
    [text |-> text, statuses |-> statuses, groupBy |-> groupBy, events |-> events]

\* the notes, status configurations and queries the renderer is started on
Scenarios ==
    { Scenario(FileBasic, DefaultStatuses, "status.name", MaxOtherEvents),
      Scenario(FileOverlap, DefaultStatuses, "status.name", MaxOtherEvents),
      Scenario(FileBasic, TypeNamedStatuses, "status.name", MaxEvents),
      Scenario(FileBang, CustomStatuses, "status.type", MaxOtherEvents),
      Scenario(FilePriority, DefaultStatuses, "priority", MaxOtherEvents),
      Scenario(FilePriority, DefaultStatuses, "priority+status.name", MaxOtherEvents),
      Scenario(FileBangHigh, DefaultStatuses, "priority+status.name", MaxOtherEvents),
      Scenario(FileBasic, DefaultStatuses, "status.nme", MaxOtherEvents),
      Scenario(FileBasic, DefaultStatuses, "status.name where a", MaxOtherEvents) }

(***************************************************************************)
(* Init: the state after onload() has rendered and subscribed              *)
(***************************************************************************)
Init ==
    /\ \E sc \in Scenarios :
          /\ vault = sc.text /\ allStatuses = sc.statuses /\ grouping = sc.groupBy
          /\ budget = sc.events
    /\ fileExists = TRUE
    /\ board = RenderedBoard(allStatuses, grouping, vault)
    /\ ops = <<>>
    /\ isUpdating = FALSE
    /\ refreshTimeout = FALSE
    /\ renderTimers = 0
    /\ clearTimers = 0
    /\ burst = 0
    /\ loaded = TRUE
    /\ call = NoCall
    /\ unseen = FALSE

(***************************************************************************)
(* Actions                                                                 *)
(***************************************************************************)
\* the 'modify' listener of setupAutoRefresh for a markdown file, as a function of the
\* timer state [handle, timers, burst] it finds
OnModify(t) ==
    IF ~isUpdating
    THEN [handle |-> TRUE, timers |-> debouncedRender(t.handle, t.timers), burst |-> t.burst + 1]
    ELSE t

TimerState == [handle |-> refreshTimeout, timers |-> renderTimers, burst |-> burst]

\* registerEvent: the vault's listeners are called until the component is unloaded
Notified(t) == IF loaded THEN t ELSE TimerState

\* the drop handlers' own refresh guarded like the 'modify' listener
SettleUnlessUpdating(t) ==
    /\ refreshTimeout' = (IF isUpdating THEN t.handle ELSE TRUE)
    /\ renderTimers' = (IF isUpdating THEN t.timers ELSE debouncedRender(t.handle, t.timers))
    /\ burst' = t.burst
    /\ clearTimers' = clearTimers + 1

\* then/catch/finally of the drop handlers once updateTaskStatus has settled:
\* debouncedRender(200 or 100), and a timer that clears isUpdating after 1000 ms
Settle(t) ==
    /\ refreshTimeout' = TRUE
    /\ renderTimers' = debouncedRender(t.handle, t.timers)
    /\ burst' = t.burst
    /\ clearTimers' = clearTimers + 1

\* the record of a drop: pc is "ignored", "reading", "writing" or "done"
NewOp(handler, card, target, task, pc, result) ==
    [handler |-> handler, column |-> card.column, target |-> target,
     task |-> task, pc |-> pc, result |-> result,
     newStatus |-> mapColumnToStatusType(allStatuses, target),
     before |-> <<>>, after |-> <<>>, didRead |-> FALSE, wrote |-> FALSE]

\* what the 'drop' listener does to everything but the display
DropEffect(card, target) ==
    /\ MayAct
    /\ loaded
    /\ card \in Cards(board)
    /\ target \in ColumnKeys(board)
    /\ LET data == DragData(card.task)
           proceeds == IF board.kind = "flat" THEN FlatDropProceeds(data, target)
                       ELSE SwimDropProceeds(data, target)
           task == IF board.kind = "flat" THEN FlatTaskForUpdate(data)
                   ELSE SwimTaskForUpdate(data)
           targetStatusType == mapColumnToStatusType(allStatuses, target)
           resolves == fileExists /\ task.path = NotesPath
       IN  IF ~proceeds \/ targetStatusType = ""
           THEN /\ ops' = Append(ops, NewOp(board.kind, card, target, task, "ignored", "none"))
                /\ UNCHANGED <<isUpdating, refreshTimeout, renderTimers, clearTimers, burst>>
           ELSE IF ~resolves
           THEN /\ ops' = Append(ops, NewOp(board.kind, card, target, task, "done",
                                            "FileNotFound"))
                /\ isUpdating' = TRUE
                /\ Settle(TimerState)
           ELSE /\ ops' = Append(ops, NewOp(board.kind, card, target, task, "reading", "none"))
                /\ isUpdating' = TRUE
                /\ UNCHANGED <<refreshTimeout, renderTimers, clearTimers, burst>>
    /\ budget' = budget - 1
    /\ UNCHANGED <<vault, fileExists, allStatuses, grouping, loaded, call, unseen>>

\* the columns with the task taken out of its column and appended to the target column
MovedColumns(columns, card, target) ==
    LET Other(t) == t # card.task
        present == \E i \in 1..Len(columns) : Contains(columns[i].val, card.task)
    IN  [i \in 1..Len(columns) |->
            [key |-> columns[i].key,
             val |-> SelectSeq(columns[i].val, Other)
                     \o (IF present /\ columns[i].key = target THEN <<card.task>> ELSE <<>>)]]

\* a 'drop' listener that moves the card element itself into the column dropped on
DropMovesCard(card, target) ==
    /\ DropEffect(card, target)
    /\ board' = [board EXCEPT
                    !.columns = MovedColumns(@, card, target),
                    !.lanes = [l \in 1..Len(@) |->
                                  [key |-> @[l].key,
                                   val |-> MovedColumns(@[l].val, card, target)]]]

\* the 'drop' listener of setupDropZone / setupSwimLaneDropZone, up to the first await
\* of updateTaskStatus (or through its rejection when the path does not resolve): it
\* leaves the container element as it is
Drop(card, target) ==
    /\ DropEffect(card, target)
    /\ board' = board

\* updateTaskStatus without the test updatedLine !== originalLine: it always writes
ReadDoneAlwaysWrites(o) ==
    /\ o \in 1..Len(ops)
    /\ ops[o].pc = "reading"
    /\ LET op == ops[o]
           statusSymbol == getStatusSymbol(allStatuses, op.newStatus)
           lines == Split(vault, NL)
           actualLineIndex == FindTaskLine(lines, op.task.description)
           updatedContent == UpdatedContent(vault, op.task.description, statusSymbol)
           settled(result) == [op EXCEPT !.pc = "done", !.result = result,
                                         !.didRead = fileExists,
                                         !.before = IF fileExists THEN vault ELSE <<>>]
       IN  IF ~fileExists
           THEN ops' = [ops EXCEPT ![o] = settled("ReadFailed")] /\ Settle(TimerState)
           ELSE IF actualLineIndex = 0
           THEN ops' = [ops EXCEPT ![o] = settled("TaskLineNotFound")] /\ Settle(TimerState)
           ELSE /\ ops' = [ops EXCEPT ![o] = [op EXCEPT !.pc = "writing", !.didRead = TRUE,
                                                        !.before = vault,
                                                        !.after = updatedContent]]
                /\ UNCHANGED <<refreshTimeout, renderTimers, clearTimers, burst>>
    /\ UNCHANGED <<vault, fileExists, allStatuses, grouping, loaded, call, unseen, board,
                   isUpdating, budget>>

\* updateTaskStatus from the resolution of vault.read to its next await or its end
ReadDone(o) ==
    /\ o \in 1..Len(ops)
    /\ ops[o].pc = "reading"
    /\ LET op == ops[o]
           statusSymbol == getStatusSymbol(allStatuses, op.newStatus)
           lines == Split(vault, NL)
           actualLineIndex == FindTaskLine(lines, op.task.description)
           updatedContent == UpdatedContent(vault, op.task.description, statusSymbol)
           settled(result) == [op EXCEPT !.pc = "done", !.result = result,
                                         !.didRead = fileExists,
                                         !.before = IF fileExists THEN vault ELSE <<>>]
       IN  IF ~fileExists
           THEN ops' = [ops EXCEPT ![o] = settled("ReadFailed")] /\ Settle(TimerState)
           ELSE IF actualLineIndex = 0
           THEN ops' = [ops EXCEPT ![o] = settled("TaskLineNotFound")] /\ Settle(TimerState)
           ELSE IF updatedContent = vault
           THEN ops' = [ops EXCEPT ![o] = settled("ok")] /\ Settle(TimerState)
           ELSE /\ ops' = [ops EXCEPT ![o] = [op EXCEPT !.pc = "writing", !.didRead = TRUE,
                                                        !.before = vault,
                                                        !.after = updatedContent]]
                /\ UNCHANGED <<refreshTimeout, renderTimers, clearTimers, burst>>
    /\ UNCHANGED <<vault, fileExists, allStatuses, grouping, loaded, call, unseen, board,
                   isUpdating, budget>>

\* the resolution of vault.modify: the whole text is replaced, the vault notifies its
\* 'modify' listeners, and the drop handler continues
WriteDone(o) ==
    /\ o \in 1..Len(ops)
    /\ ops[o].pc = "writing"
    /\ IF fileExists
       THEN /\ vault' = ops[o].after
            /\ ops' = [ops EXCEPT ![o] = [@ EXCEPT !.pc = "done", !.result = "ok",
                                                   !.wrote = TRUE]]
            /\ Settle(OnModify(TimerState))
       ELSE /\ ops' = [ops EXCEPT ![o] = [@ EXCEPT !.pc = "done",
                                                   !.result = "WriteFailed"]]
            /\ vault' = vault
            /\ Settle(TimerState)
    /\ UNCHANGED <<fileExists, allStatuses, grouping, loaded, call, unseen, board, isUpdating,
                   budget>>

\* the timer's callback with render() returning before it queries
RenderTimerFireNoQuery ==
    /\ renderTimers > 0
    /\ renderTimers' = renderTimers - 1
    /\ refreshTimeout' = FALSE
    /\ burst' = 0
    /\ UNCHANGED <<vault, fileExists, allStatuses, grouping, loaded, call, unseen, board, ops,
                   isUpdating, clearTimers, budget>>

\* the callback of debouncedRender's timer: render(), then refreshTimeout = null
RenderTimerFire ==
    /\ renderTimers > 0
    /\ board' = RenderedBoard(allStatuses, grouping, VisibleText)
    /\ renderTimers' = renderTimers - 1
    /\ refreshTimeout' = FALSE
    /\ burst' = 0
    /\ unseen' = FALSE
    /\ UNCHANGED <<vault, fileExists, allStatuses, grouping, loaded, call, ops, isUpdating,
                   clearTimers, budget>>

\* the callback of the 1000 ms timer with its assignment left out
ClearTimerFireKeepsFlag ==
    /\ clearTimers > 0
    /\ clearTimers' = clearTimers - 1
    /\ UNCHANGED <<vault, fileExists, allStatuses, grouping, loaded, call, unseen, board, ops,
                   isUpdating, refreshTimeout, renderTimers, budget, burst>>

\* the callback of the 1000 ms timer of a drop handler's finally block
ClearTimerFire ==
    /\ clearTimers > 0
    /\ isUpdating' = FALSE
    /\ clearTimers' = clearTimers - 1
    /\ UNCHANGED <<vault, fileExists, allStatuses, grouping, loaded, call, unseen, board, ops,
                   refreshTimeout, renderTimers, budget, burst>>

\* what another editor does to the text
ExternalEdits == {"insertTop", "removeLast"}

EditedText(content, edit) ==
    LET lines == Split(content, NL)
    IN  IF edit = "insertTop" THEN Join(<<LineNote>> \o lines, NL)
        ELSE Join(SubSeq(lines, 1, Len(lines) - 1), NL)

\* another editor rewrites the resource and the vault notifies the 'modify' listener
ExternalModify(edit) ==
    /\ MayAct
    /\ fileExists
    /\ edit \in ExternalEdits
    /\ vault' = EditedText(vault, edit)
    /\ budget' = budget - 1
    /\ refreshTimeout' = Notified(OnModify(TimerState)).handle
    /\ renderTimers' = Notified(OnModify(TimerState)).timers
    /\ burst' = Notified(OnModify(TimerState)).burst
    /\ unseen' = (unseen \/ (loaded /\ isUpdating))
    /\ UNCHANGED <<fileExists, allStatuses, grouping, loaded, call, board, ops, isUpdating,
                   clearTimers>>

\* the 'delete' and 'rename' listeners of setupAutoRefresh for a markdown file
OnDeleteOrRename(t) ==
    [handle |-> TRUE, timers |-> debouncedRender(t.handle, t.timers), burst |-> t.burst]

\* the resource is deleted; the 'delete' listener runs debouncedRender(200)
ExternalDelete ==
    /\ MayAct
    /\ fileExists
    /\ fileExists' = FALSE
    /\ budget' = budget - 1
    /\ refreshTimeout' = Notified(OnDeleteOrRename(TimerState)).handle
    /\ renderTimers' = Notified(OnDeleteOrRename(TimerState)).timers
    /\ UNCHANGED <<vault, allStatuses, grouping, loaded, call, unseen, board, ops, isUpdating,
                   clearTimers, burst>>

\* some other markdown file is renamed; the 'rename' listener runs debouncedRender(200)
ExternalRename ==
    /\ MayAct
    /\ budget' = budget - 1
    /\ refreshTimeout' = Notified(OnDeleteOrRename(TimerState)).handle
    /\ renderTimers' = Notified(OnDeleteOrRename(TimerState)).timers
    /\ UNCHANGED <<vault, fileExists, allStatuses, grouping, loaded, call, unseen, board, ops,
                   isUpdating, clearTimers, burst>>

\* the host unloads the renderer (the note is closed or re-rendered): Component.unload
\* detaches the listeners given to registerEvent; the class has no onunload and
\* registers no callback that would clear refreshTimeout or the 1000 ms timers
Unload ==
    /\ MayAct
    /\ loaded
    /\ loaded' = FALSE
    /\ budget' = budget - 1
    /\ UNCHANGED <<vault, fileExists, allStatuses, grouping, call, unseen, board, ops,
                   isUpdating, refreshTimeout, renderTimers, clearTimers, burst>>

Next ==
    \/ \E card \in Cards(board), target \in ColumnKeys(board) : Drop(card, target)
    \/ \E o \in 1..Len(ops) : ReadDone(o)
    \/ \E o \in 1..Len(ops) : WriteDone(o)
    \/ RenderTimerFire
    \/ ClearTimerFire
    \/ \E edit \in ExternalEdits : ExternalModify(edit)
    \/ ExternalDelete
    \/ ExternalRename
    \/ Unload

Spec == Init /\ [][Next]_vars

\* some drop is at the given position of updateTaskStatus
SomeOpAt(pc) == \E o \in 1..Len(ops) : ops[o].pc = pc

\* Timers fire and the vault's reads and writes complete: weak fairness of
\* ClearTimerFire, RenderTimerFire, ReadDone and WriteDone.  For the last three
\* WF_vars(A) is written out as []<>~ENABLED <<A>>_vars \/ []<><<A>>_vars, with
\* ENABLED <<A>>_vars replaced by the guard of A it is equivalent to (each of them
\* changes renderTimers or ops whenever its guard holds).
Fairness ==
    /\ WF_vars(ClearTimerFire)
    /\ ([]<>(renderTimers = 0) \/ []<><<RenderTimerFire>>_vars)
    /\ ([]<>(~SomeOpAt("reading")) \/ []<><<\E o \in 1..Len(ops) : ReadDone(o)>>_vars)
    /\ ([]<>(~SomeOpAt("writing")) \/ []<><<\E o \in 1..Len(ops) : WriteDone(o)>>_vars)

FairSpec == Init /\ [][Next]_vars /\ Fairness

(***************************************************************************)
(* The Status Mapper and the Board Materializer applied to drawn arguments *)
(***************************************************************************)
\* how many mapper functions are applied to a drawn string, one to the result of the other
MaxCalls == 2

\* getSettings() throws or has no statuses: no configuration is available
NoStatuses == <<>>

\* a user who named all four stock statuses after their types
TypeNamedWorkflowStatuses ==
    << Status(" ", "TODO", "TODO"), Status("x", "DONE", "DONE"),
       Status("/", "IN_PROGRESS", "IN_PROGRESS"), Status("-", "CANCELLED", "CANCELLED") >>

StatusConfigurations ==
    {DefaultStatuses, CustomStatuses, TypeNamedStatuses, TypeNamedWorkflowStatuses}

\* settings.statusOrder as the settings tab parses it from the comma-separated text
StatusOrders ==
    {NoStatusOrder, <<"Done", "Todo">>, <<"Todo", "Todo">>, <<"Done", "Blocked">>,
     <<"Unknown", "Todo">>}

\* the grouped result of the scenario: groups Todo -> [A] and Done -> []
ScenarioGroups ==
    << [groups |-> <<"Todo">>, tasks |-> <<TaskOfLine(DefaultStatuses, LineTodoA, 1)>>],
       [groups |-> <<"Done">>, tasks |-> <<>>] >>

\* a result grouped by path: task A in a.md, task B in b.md
PathGroups ==
    << [groups |-> <<"a.md">>, tasks |-> <<TaskOfLine(DefaultStatuses, LineTodoA, 1)>>],
       [groups |-> <<"b.md">>, tasks |-> <<TaskOfLine(DefaultStatuses, LineDoneB, 2)>>] >>

\* the single-grouped results the materializer is applied to
SingleGroupedResults(statuses) ==
    {QueryGroups(statuses, groupBy, text) :
        groupBy \in {"status.name", "status.type", "priority"},
        text \in {FileBasic, FileBang, FilePriority}}
    \cup {ScenarioGroups, PathGroups, <<>>}

\* the markers and column keys the mappers are applied to
MapperInputs ==
    {" ", "/", "x", "-", "X", "!", "TODO", "IN_PROGRESS", "DONE", "CANCELLED",
     "Todo", "In Progress", "Done", "Cancelled", "To Do", "Blocked", "High"}

\* a dual-grouped result with a group that carries one hierarchy level only
MixedDepthGroups ==
    << [groups |-> <<"High", "Todo">>,
        tasks |-> <<TaskOfLine(DefaultStatuses, LineTodoAHigh, 0)>>],
       [groups |-> <<"None">>, tasks |-> <<TaskOfLine(DefaultStatuses, LineDoneB, 1)>>] >>

\* the dual-grouped results the materializer is applied to
DualGroupedResults ==
    {QueryGroups(DefaultStatuses, "priority+status.name", text) :
        text \in {FilePriority, FileBangHigh, FileBangLow}}
    \cup {MixedDepthGroups}

MaterializerCalls ==
    {[NoCall EXCEPT !.kind = "materialize", !.statuses = st, !.statusOrder = order,
                    !.groups = groups] :
        st \in StatusConfigurations, order \in StatusOrders,
        groups \in UNION {SingleGroupedResults(c) : c \in StatusConfigurations}}
    \cup
    {[NoCall EXCEPT !.kind = "materialize", !.statuses = DefaultStatuses,
                    !.statusOrder = order, !.groups = groups] :
        order \in {NoStatusOrder, <<"Done", "Todo">>}, groups \in DualGroupedResults}

MapperCalls ==
    {[NoCall EXCEPT !.kind = "map", !.statuses = st, !.values = <<input>>] :
        st \in StatusConfigurations \cup {NoStatuses}, input \in MapperInputs}

\* the edited lines the Tasks modal hands back: one line, and a task with a new
\* recurrence above it
LineEdited == <<"-", " ", "[", " ", "]", " ", "c">>

EditedTaskLines == {LineEdited, Join(<<LineTodoB, LineEdited>>, NL)}

\* the calls of saveEditedTask: a file that resolves or not, its text, the description
\* of the card's task and the edited line
SaveCalls ==
    {[NoCall EXCEPT !.kind = "save", !.file = [exists |-> exists, content |-> content],
                    !.description = description, !.editedTaskLine = edited] :
        exists \in BOOLEAN, content \in {FileBasic, FileOverlap, FileBang, <<>>},
        description \in {<<"a">>, <<"b">>, <<"n">>, <<"z">>, <<>>},
        edited \in EditedTaskLines}

\* the renderer's own state plays no part in these calls
rendererVars ==
    <<vault, fileExists, allStatuses, grouping, board, ops, isUpdating, refreshTimeout,
      renderTimers, clearTimers, budget, burst, loaded, unseen>>

FunctionInit ==
    /\ vault = FileBasic /\ allStatuses = DefaultStatuses /\ grouping = "status.name"
    /\ budget = 0
    /\ fileExists = TRUE
    /\ board = RenderedBoard(allStatuses, grouping, vault)
    /\ ops = <<>>
    /\ isUpdating = FALSE
    /\ refreshTimeout = FALSE
    /\ renderTimers = 0
    /\ clearTimers = 0
    /\ burst = 0
    /\ loaded = TRUE
    /\ unseen = FALSE
    /\ call \in MaterializerCalls \cup MapperCalls \cup SaveCalls

\* the string the next mapper function is applied to
Value == call.values[Len(call.values)]

\* whether one more mapper function may be applied
MayApply == call.kind = "map" /\ Len(call.fns) < MaxCalls

\* the call once a mapper function has been applied to Value with the given result
Applied(fn, result) == [call EXCEPT !.fns = Append(@, fn), !.values = Append(@, result)]

ApplyGetStatusSymbol ==
    /\ MayApply
    /\ call' = Applied("getStatusSymbol", getStatusSymbol(call.statuses, Value))
    /\ UNCHANGED rendererVars

ApplyMapStatusToType ==
    /\ MayApply
    /\ call' = Applied("mapStatusToType", mapStatusToType(call.statuses, Value))
    /\ UNCHANGED rendererVars

ApplyMapColumnToStatusType ==
    /\ MayApply
    /\ call' = Applied("mapColumnToStatusType",
                       mapColumnToStatusType(call.statuses, Value))
    /\ UNCHANGED rendererVars

\* convertQueryResultToGroupedTasks, then renderKanbanBoard, on a single-grouped result
Materialize ==
    /\ call.kind = "materialize"
    /\ ~call.rendered
    /\ LET result == convertQueryResultToGroupedTasks(call.statuses, call.statusOrder,
                                                       call.groups)
       IN  call' = [call EXCEPT
                       !.rendered = TRUE,
                       !.columns = IF result.isDualGrouping THEN <<>>
                                   ELSE renderKanbanBoard(result.groupedTasks,
                                                          call.statusOrder, call.statuses),
                       !.lanes = IF result.isDualGrouping
                                 THEN renderSwimLaneBoard(result.swimLanes, call.statusOrder,
                                                          call.statuses)
                                 ELSE <<>>]
    /\ UNCHANGED rendererVars

\* the edit button's click listener has the edited line and awaits saveEditedTask
SaveEditedTask ==
    /\ call.kind = "save"
    /\ ~call.outcome.settled
    /\ call' = [call EXCEPT
                   !.outcome = saveEditedTask(call.file, call.description,
                                              call.editedTaskLine)]
    /\ UNCHANGED rendererVars

FunctionNext ==
    \/ SaveEditedTask
    \/ ApplyGetStatusSymbol
    \/ ApplyMapStatusToType
    \/ ApplyMapColumnToStatusType
    \/ Materialize

FunctionSpec == FunctionInit /\ [][FunctionNext]_vars

(***************************************************************************)
(* Properties                                                              *)
(***************************************************************************)
\* the drops whose updateTaskStatus has not settled yet
InFlight == {o \in 1..Len(ops) : ops[o].pc \in {"reading", "writing"}}

\* the drops whose updateTaskStatus settles in this step
Settling == {o \in 1..Len(ops') :
                /\ ops'[o].pc = "done"
                /\ o \in 1..Len(ops) => ops[o].pc # "done"}

\* b is a with only the text between the first "[" and the next "]" replaced
OnlyMarkerDiffers(a, b) ==
    \E p \in 1..Len(a), q \in 1..Len(a) :
        /\ p < q
        /\ a[p] = "[" /\ \A j \in 1..(p - 1) : a[j] # "["
        /\ a[q] = "]" /\ \A j \in (p + 1)..(q - 1) : a[j] # "]"
        /\ Len(b) >= p + (Len(a) - q + 1)
        /\ SubSeq(b, 1, p) = SubSeq(a, 1, p)
        /\ SubSeq(b, Len(b) - (Len(a) - q), Len(b)) = SubSeq(a, q, Len(a))
        /\ \A j \in (p + 1)..(Len(b) - (Len(a) - q) - 1) : b[j] \notin {"[", "]"}

\* the written text is the read text with the marker of exactly one line replaced
FrameKept(read, written) ==
    LET old == Split(read, NL)
        new == Split(written, NL)
    IN  /\ Len(new) = Len(old)
        /\ \E i \in 1..Len(old) :
              /\ OnlyMarkerDiffers(old[i], new[i])
              /\ \A j \in 1..Len(old) : j # i => new[j] = old[j]

\* C1: whenever a move writes, the text it writes is the text it read with only the
\* bracketed marker of one line replaced: every other character of that line and
\* every other line are identical, and the number of lines is the same
C1_FrameEffect ==
    [][\A o \in 1..Len(ops) :
          (ops[o].pc = "writing" /\ ops'[o].wrote)
              => /\ vault' = ops'[o].after
                 /\ FrameKept(ops[o].before, vault')]_vars

\* a move has written a text that differs from the one it read
C1_Witness ==
    \E o \in 1..Len(ops) :
        ops[o].wrote /\ ops[o].result = "ok" /\ vault = ops[o].after
                     /\ ops[o].after # ops[o].before

\* no line of the text both matches the checkbox pattern and contains the description
NoLineMatches(content, taskDescription) ==
    \A line \in {Split(content, NL)[i] : i \in 1..Len(Split(content, NL))} :
        ~(MatchesCheckbox(line) /\ Includes(line, taskDescription))

\* C2: a move whose path does not resolve settles with FileNotFound without reading or
\* writing; a move that reads a text with no matching line settles with
\* TaskLineNotFound without writing; no failed move has written, and the step in
\* which a move fails leaves the resource as it was
C2_FailuresWriteNothing ==
    [][\A o \in 1..Len(ops') :
          /\ (o > Len(ops) /\ ops'[o].pc # "ignored" /\ ~fileExists)
                => /\ ops'[o].pc = "done" /\ ops'[o].result = "FileNotFound"
                   /\ ~ops'[o].didRead
          /\ (o <= Len(ops) /\ ops[o].pc = "reading" /\ ops'[o].pc # "reading"
                /\ fileExists /\ NoLineMatches(vault, ops[o].task.description))
                => ops'[o].pc = "done" /\ ops'[o].result = "TaskLineNotFound"
          /\ (o \in Settling /\ ops'[o].result # "ok")
                => ~ops'[o].wrote /\ vault' = vault]_vars

\* a move has failed because the line of its task was no longer in the text it read
C2_Witness ==
    \E o \in 1..Len(ops) :
        /\ ops[o].pc = "done" /\ ops[o].result = "TaskLineNotFound"
        /\ ops[o].didRead /\ ~ops[o].wrote
        /\ NoLineMatches(ops[o].before, ops[o].task.description)

\* C3: a drop of a card onto the column it is displayed in never reaches a write, in
\* the flat-column drop handler and in the swim-lane drop handler
C3_SameColumnDropWritesNothing ==
    \A o \in 1..Len(ops) :
        ops[o].column = ops[o].target => ops[o].pc # "writing" /\ ~ops[o].wrote

\* the column keys of the fallback switch of mapColumnToStatusType
CanonicalKeys ==
    {"TODO", "To Do", "IN_PROGRESS", "In Progress", "DONE", "Done", "CANCELLED", "Cancelled"}

\* the column key matches no configured descriptor and is no canonical key
Unmappable(statuses, columnKey) ==
    /\ columnKey \notin CanonicalKeys
    /\ \A i \in 1..Len(statuses) :
          columnKey \notin {statuses[i].name, statuses[i].type, statuses[i].symbol}

\* C4: a move whose target column key has no status mapping fails with
\* UnmappableColumn and never writes the resource
C4_UnmappableColumnFails ==
    \A o \in 1..Len(ops) :
        (Unmappable(allStatuses, ops[o].target) /\ ops[o].pc = "done")
            => ops[o].result = "UnmappableColumn" /\ ~ops[o].wrote

\* C5: whenever the updateTaskStatus of some drop is in flight, isUpdating is true
C5_SuppressedWhileInFlight == InFlight # {} => isUpdating

\* C6: at most one refresh timer is pending at any time, and the 'modify' notifications
\* that arrived since the last render are all served by the one pending timer
C6_BurstCollapses ==
    /\ renderTimers <= 1
    /\ refreshTimeout <=> renderTimers = 1
    /\ burst >= 1 => renderTimers = 1

\* two 'modify' notifications have arrived within the debounce window
C6_Witness == burst >= 2 /\ renderTimers = 1 /\ ~isUpdating

\* C7: the step in which the updateTaskStatus of a drop settles, with or without an
\* error, leaves a refresh timer pending whatever isUpdating is and does not clear
\* isUpdating, and a pending refresh timer eventually fires (a render runs)
C7_CorrectiveRefresh ==
    /\ [][Settling # {} => /\ refreshTimeout' /\ renderTimers' >= 1
                           /\ (isUpdating \/ Len(ops') > Len(ops)) => isUpdating']_vars
    /\ (renderTimers >= 1) ~> (renderTimers = 0)

\* a move has thrown and its refresh is pending while isUpdating is still true
C7_Witness ==
    \E o \in 1..Len(ops) :
        /\ ops[o].pc = "done" /\ ops[o].result # "ok"
        /\ isUpdating /\ refreshTimeout /\ renderTimers = 1

\* the column key (and lane key) under which the grouping shows a line of the text
PersistedKeys(statuses, groupBy, line) ==
    LET task == TaskOfLine(statuses, line, 0)
        OfType(st) == st.type = task.status.type
        first == FindIndex({k \in 1..Len(statuses) : OfType(statuses[k])})
    IN  CASE groupBy \in {"status.name", "status.name where a"} ->
                [lane |-> "", key |-> task.status.name]
          [] groupBy = "status.type" ->
                [lane |-> "", key |-> IF first # 0 THEN statuses[first].name
                                      ELSE task.status.type]
          [] groupBy = "priority" -> [lane |-> "", key |-> task.priority]
          [] groupBy = "priority+status.name" ->
                [lane |-> task.priority, key |-> task.status.name]

\* every card of the board lies in the cell that its line of the text belongs to
ShowsPersisted(b, content) ==
    LET lines == Split(content, NL)
    IN  \A cell \in Cells(b) : \A i \in 1..Len(cell.val) :
            LET n == cell.val[i].lineNumber + 1
            IN  /\ n <= Len(lines)
                /\ IsTaskLine(lines[n])
                /\ Includes(lines[n], cell.val[i].description)
                /\ PersistedKeys(allStatuses, grouping, lines[n])
                       = [lane |-> cell.lane, key |-> cell.key]

\* the display is the board of the text in storage and no refresh is pending
Converged ==
    /\ renderTimers = 0
    /\ board = RenderedBoard(allStatuses, grouping, VisibleText)
    /\ ShowsPersisted(board, VisibleText)

\* exactly one drop has happened, its write has succeeded and the resource still
\* holds what it wrote
SingleMoveWritten ==
    IF Len(ops) = 1 THEN ops[1].wrote /\ fileExists /\ vault = ops[1].after ELSE FALSE

\* the display has converged to the text the single drop wrote
SingleMoveShown ==
    IF Len(ops) = 1 THEN Converged /\ vault = ops[1].after ELSE FALSE

\* C8: once the write of a single drop has succeeded, and unless the user drops again
\* or another editor changes or deletes the resource after it, a render eventually
\* runs after the write and the last displayed board shows every task under the status
\* persisted in storage
C8_SingleMoveConverges ==
    SingleMoveWritten ~> (SingleMoveShown \/ ~SingleMoveWritten)

\* the write of a single drop was followed by a render that shows the written text
C8_Witness ==
    /\ SingleMoveWritten /\ SingleMoveShown
    /\ ops[1].after # ops[1].before
    /\ board # RenderedBoard(allStatuses, grouping, ops[1].before)

MaterializedLanes ==
    convertQueryResultToGroupedTasks(allStatuses, NoStatusOrder,
        QueryGroups(allStatuses, grouping, VisibleText)).swimLanes

\* C10: all swim lanes the materializer emits for a dual-grouped input have the same
\* ordered sequence of column keys
C10_LanesAlike ==
    \A l1 \in 1..Len(MaterializedLanes), l2 \in 1..Len(MaterializedLanes) :
        Keys(MaterializedLanes[l1].val) = Keys(MaterializedLanes[l2].val)

\* the grouped result the materializer hands to renderKanbanBoard in the followed call
CallGroupedTasks ==
    convertQueryResultToGroupedTasks(call.statuses, call.statusOrder,
                                     call.groups).groupedTasks

\* the keys of the columns of the emitted board, in display order
CallColumnKeys == Keys(call.columns)

\* the columns of the emitted board that have the given key
ColumnsOf(k) == {i \in 1..Len(call.columns) : call.columns[i].key = k}

\* a single-grouped input has been materialized
Materialized ==
    /\ call.kind = "materialize" /\ call.rendered
    /\ ~convertQueryResultToGroupedTasks(call.statuses, call.statusOrder,
                                         call.groups).isDualGrouping

\* C11: the board emitted for a single-grouped input has exactly one column per key
\* the Order Resolver resolves and no other column, and every configured status has a
\* column, which is empty when no task of the input falls under it
C11_OneColumnPerResolvedKey ==
    Materialized =>
        LET resolved == getColumnOrder(CallGroupedTasks, "status", call.statusOrder,
                                       call.statuses)
        IN  /\ \A r \in 1..Len(resolved) : Cardinality(ColumnsOf(resolved[r])) = 1
            /\ \A i \in 1..Len(call.columns) : Contains(resolved, call.columns[i].key)
            /\ \A s \in 1..Len(call.statuses) :
                  \E i \in ColumnsOf(DisplayName(call.statuses[s])) :
                      call.columns[i].val =
                          Lookup(CallGroupedTasks, DisplayName(call.statuses[s]), <<>>)

\* the place of a status type in the workflow order, 0 for a type that has none
WorkflowRank(type) ==
    IF Contains(workflowOrder, type)
    THEN CHOOSE r \in 1..Len(workflowOrder) : workflowOrder[r] = type
    ELSE 0

\* the workflow ranks of the configured statuses displayed under a column key
RanksOfKey(statuses, key) ==
    {WorkflowRank(statuses[s].type) :
        s \in {t \in 1..Len(statuses) : DisplayName(statuses[t]) = key}} \ {0}

\* every group of the materialized result is the group of a configured status
StatusGrouped ==
    \A g \in 1..Len(call.groups) :
        /\ Len(call.groups[g].groups) = 1
        /\ \E s \in 1..Len(call.statuses) :
              DisplayName(call.statuses[s]) =
                  convertStatusIdToDisplayName(call.statuses, call.groups[g].groups[1])

\* the board of the scenario: Todo with task A, then three empty columns
ScenarioBoard ==
    << [key |-> "Todo", val |-> ScenarioGroups[1].tasks],
       [key |-> "In Progress", val |-> <<>>],
       [key |-> "Done", val |-> <<>>],
       [key |-> "Cancelled", val |-> <<>>] >>

\* C12: with no user status order the columns of a status-grouped result follow the
\* workflow order Todo, In Progress, Done, Cancelled, non-task, empty: a column of
\* an earlier category is never to the right of a column of a later one, columns of no
\* category come last, and the grouped result Todo -> [A], Done -> [] under the stock
\* statuses yields exactly [Todo: [A], In Progress: [], Done: [], Cancelled: []]
C12_DefaultWorkflowOrder ==
    (Materialized /\ call.statusOrder = NoStatusOrder /\ StatusGrouped) =>
        /\ \A i \in 1..Len(call.columns), j \in 1..Len(call.columns) :
              i < j =>
                  LET left == RanksOfKey(call.statuses, call.columns[i].key)
                      right == RanksOfKey(call.statuses, call.columns[j].key)
                  IN  /\ \A a \in left, b \in right : a <= b
                      /\ left = {} => right = {}
        /\ (call.statuses = DefaultStatuses /\ call.groups = ScenarioGroups)
              => call.columns = ScenarioBoard

\* the two columns of the fallback table: its markers and its keys as the code spells them
FallbackMarkers == {" ", "/", "x", "-"}

FallbackKeys == {"TODO", "IN_PROGRESS", "DONE", "CANCELLED"}

\* no descriptor of the configuration has the string as its name, type or symbol
NoDescriptorMatches(statuses, str) ==
    \A i \in 1..Len(statuses) :
        str \notin {statuses[i].name, statuses[i].type, statuses[i].symbol}

\* the first two mapper functions applied were f then g, both through their fallback
FellBackThrough(f, g) ==
    /\ call.kind = "map"
    /\ Len(call.fns) >= 2
    /\ call.fns[1] = f /\ call.fns[2] = g
    /\ NoDescriptorMatches(call.statuses, call.values[1])
    /\ NoDescriptorMatches(call.statuses, call.values[2])

\* C14: on the fallback table, getStatusSymbol(mapStatusToType(m)) = m for each of the
\* markers ' ', '/', 'x', '-', and mapStatusToType(getStatusSymbol(k)) = k for each of
\* the keys TODO, IN_PROGRESS, DONE, CANCELLED
C14_FallbackRoundTrip ==
    /\ (FellBackThrough("mapStatusToType", "getStatusSymbol")
           /\ call.values[1] \in FallbackMarkers) => call.values[3] = call.values[1]
    /\ (FellBackThrough("getStatusSymbol", "mapStatusToType")
           /\ call.values[1] \in FallbackKeys) => call.values[3] = call.values[1]

\* under a configuration that has no such status, key IN_PROGRESS has gone to '/' and back
C14_Witness ==
    /\ FellBackThrough("getStatusSymbol", "mapStatusToType")
    /\ call.statuses = TypeNamedStatuses
    /\ call.values = <<"IN_PROGRESS", "/", "IN_PROGRESS">>

\* the vault notifies the renderer of a modified, a renamed or a deleted markdown file
ExternalNotification ==
    \/ \E edit \in ExternalEdits : ExternalModify(edit)
    \/ ExternalDelete
    \/ ExternalRename

\* C15: while isUpdating is true, none of the 'modify', 'rename' and 'delete'
\* notifications schedules or reschedules the refresh timer
C15_NotificationsSuppressed ==
    [][(isUpdating /\ ExternalNotification)
           => (refreshTimeout' = refreshTimeout /\ renderTimers' = renderTimers)]_vars

\* C16: isUpdating is never left true forever, and once the moves have settled and
\* their 1000 ms timers have fired it is false and stays false, after a move that
\* succeeded and after a move that failed alike
C16_FlagEventuallyCleared ==
    /\ isUpdating ~> ~isUpdating
    /\ <>[](~isUpdating)

\* a move has failed, its 1000 ms timer has fired and isUpdating is false again
C16_Witness ==
    /\ ~isUpdating /\ clearTimers = 0 /\ InFlight = {}
    /\ \E o \in 1..Len(ops) : ops[o].pc = "done" /\ ops[o].result \notin {"ok", "none"}

\* C17: once the renderer has been unloaded, no refresh timer scheduled before fires
\* a render
C17_TeardownCancelsRefresh == [][~loaded => ~RenderTimerFire]_vars

\* the lines of a text that match the checkbox pattern and contain the description
MatchingLines(content, taskDescription) ==
    {n \in 1..Len(Split(content, NL)) :
        /\ MatchesCheckbox(Split(content, NL)[n])
        /\ Includes(Split(content, NL)[n], taskDescription)}

\* the lines in which two texts of equally many lines differ
DifferingLines(a, b) ==
    {n \in 1..Len(Split(a, NL)) : Split(a, NL)[n] # Split(b, NL)[n]}

\* the move rewrote (or is about to write) a line other than the one its hint names
HintIsOff(op) ==
    /\ op.after # <<>>
    /\ DifferingLines(op.before, op.after) # {op.task.lineNumber + 1}

\* C18: a move rewrites exactly the lowest-indexed line of the text it read that
\* matches the checkbox pattern and contains the task's description, and fails with
\* TaskLineNotFound exactly when the text has no such line, whether or not the task's
\* line number names that line
C18_LocatedByContent ==
    \A o \in 1..Len(ops) :
        LET op == ops[o]
            matching == MatchingLines(op.before, op.task.description)
        IN  /\ op.after # <<>> =>
                  /\ matching # {}
                  /\ Len(Split(op.after, NL)) = Len(Split(op.before, NL))
                  /\ DifferingLines(op.before, op.after) =
                         {CHOOSE k \in matching : \A n \in matching : k <= n}
            /\ (op.didRead /\ op.pc = "done") =>
                  (op.result = "TaskLineNotFound" <=> matching = {})

\* a move has written a line that its line number does not name: the description of
\* the card is part of an earlier task's line, or another editor has shifted the lines
C18_Witness ==
    \E o \in 1..Len(ops) : ops[o].wrote /\ HintIsOff(ops[o])

\* C19: every drop of a card onto a column other than its own, with a non-empty task
\* path, starts a move, whatever the task's line number; in the flat-column handler and
\* in the swim-lane handler alike
C19_DropStartsMove ==
    \A o \in 1..Len(ops) :
        (ops[o].column # ops[o].target /\ ops[o].task.path # <<>>)
            => ops[o].pc # "ignored"

\* the marker the fallback table gives a column key, and the key itself for any other key
TableMarker(columnKey) ==
    CASE columnKey \in {"TODO", "To Do", "Todo"} -> " "
      [] columnKey \in {"IN_PROGRESS", "In Progress"} -> "/"
      [] columnKey \in {"DONE", "Done"} -> "x"
      [] columnKey \in {"CANCELLED", "Cancelled"} -> "-"
      [] OTHER -> columnKey

\* C20: when no descriptor of the configuration matches, the marker of a column key
\* (getStatusSymbol of mapColumnToStatusType of the key, as a drop computes it) is the
\* one of the four-entry table, and the key itself for a key that is not in the table
C20_FallbackMarker ==
    FellBackThrough("mapColumnToStatusType", "getStatusSymbol")
        => call.values[3] = TableMarker(call.values[1])

\* the line of the text the move read that it matched already carries the marker of
\* the target column: rewriting it gives the same line
MarkerAlreadyPresent(op) ==
    LET lines == Split(op.before, NL)
        matching == MatchingLines(op.before, op.task.description)
        k == CHOOSE n \in matching : \A m \in matching : n <= m
    IN  /\ op.didRead
        /\ matching # {}
        /\ updateTaskLineStatus(lines[k], getStatusSymbol(allStatuses, op.newStatus))
               = lines[k]

\* C21: a move whose matched line already carries the target marker writes nothing and
\* completes without error
C21_IdenticalLineSkipsWrite ==
    \A o \in 1..Len(ops) :
        MarkerAlreadyPresent(ops[o])
            => /\ ops[o].pc = "done" /\ ops[o].result = "ok"
               /\ ~ops[o].wrote /\ ops[o].after = <<>>

\* a card was dropped on another column, the line its description matched first already
\* had that column's marker, and the move completed without writing
C21_Witness ==
    \E o \in 1..Len(ops) :
        /\ MarkerAlreadyPresent(ops[o])
        /\ ops[o].column # ops[o].target
        /\ ops[o].pc = "done" /\ ~ops[o].wrote

\* the keys of the grouped result in their discovery order
AvailableKeys == Keys(CallGroupedTasks)

\* the groups of the materialized result are the priorities of its tasks
PriorityGrouped ==
    /\ call.groups # <<>>
    /\ \A g \in 1..Len(call.groups) :
          /\ Len(call.groups[g].groups) = 1
          /\ Contains(priorityOrder, call.groups[g].groups[1])

\* the groups of the materialized result are paths
PathGrouped == call.groups = PathGroups

\* C22: with a user status order, the columns of a status-grouped board are the
\* entries of the user's order that are available keys, in the user's order, followed
\* by the other available keys in their discovery order
C22_UserOrderFirst ==
    (Materialized /\ call.statusOrder # NoStatusOrder /\ ~PriorityGrouped /\ ~PathGrouped)
        => LET IsAvailable(k) == Contains(AvailableKeys, k)
               NotOrdered(k) == ~Contains(call.statusOrder, k)
           IN  CallColumnKeys = SelectSeq(call.statusOrder, IsAvailable)
                                   \o SelectSeq(AvailableKeys, NotOrdered)

\* the user's order starts with a key that was discovered last: the board starts with it
C22_Witness ==
    /\ Materialized /\ ~PriorityGrouped /\ ~PathGrouped
    /\ call.statusOrder = <<"Unknown", "Todo">>
    /\ Len(AvailableKeys) > 2
    /\ AvailableKeys[Len(AvailableKeys)] = "Unknown"
    /\ CallColumnKeys[1] = "Unknown" /\ CallColumnKeys[2] = "Todo"

\* C23: a priority-grouped board shows the available priority keys in the rank Highest,
\* High, Medium, Low, Lowest, None and then the leftover keys; a board grouped by any
\* other non-status kind shows the available keys sorted lexicographically
C23_PriorityAndOtherOrder ==
    Materialized =>
        /\ PriorityGrouped =>
              CallColumnKeys
                 = PushNew(PushAvailable(priorityOrder, AvailableKeys), AvailableKeys)
        /\ PathGrouped => CallColumnKeys = SortStrings(AvailableKeys)

\* the group heading is a category identifier: a rank between %% marks and a category
IsCategoryId(heading) == Len(SplitPercent(heading)) = 3 /\ SplitPercent(heading)[3] # ""

\* the descriptors of the followed call that match the category of the identifier
CategoryMatches(heading) ==
    {s \in 1..Len(call.statuses) :
        LET st == call.statuses[s]
            category == SplitPercent(heading)[3]
        IN  st.type = category \/ st.symbol = category \/ st.name = category}

\* the tasks of the group are cards of a column with the given key
ShownUnder(g, k) ==
    \A t \in 1..Len(call.groups[g].tasks) :
        \E i \in ColumnsOf(k) : Contains(call.columns[i].val, call.groups[g].tasks[t])

\* C24: the tasks of a group whose heading is a category identifier such as
\* %%4%%CANCELLED are shown under the display name of the matching status descriptor,
\* and under the raw identifier when no descriptor matches
C24_IdentifierResolved ==
    Materialized =>
        \A g \in 1..Len(call.groups) :
            LET heading == call.groups[g].groups[1]
                matches == CategoryMatches(heading)
            IN  (Len(call.groups[g].groups) = 1 /\ IsCategoryId(heading)) =>
                    IF matches # {}
                    THEN ShownUnder(g, DisplayName(call.statuses[FindIndex(matches)]))
                    ELSE ShownUnder(g, heading)

\* what the evaluator reports for the text render() queries: query.error, else
\* queryResult.searchErrorMessage
ReportedError ==
    OrElse(QuerySyntaxError(grouping),
           SearchErrorMessage(grouping, TasksOfLines(allStatuses, Split(VisibleText, NL), 0)))

\* a render() has run in this step
RenderCycle == renderTimers' < renderTimers

Succeeded(op) == op.pc = "done" /\ op.result = "ok" /\ op.wrote

\* the moves are of two different tasks
DifferentTasks(op1, op2) ==
    /\ ~Includes(op1.task.description, op2.task.description)
    /\ ~Includes(op2.task.description, op1.task.description)

\* every line of the stored text that holds the task of the move has the marker of the
\* status the move mapped its target column to
CarriesTargetMarker(op) ==
    LET lines == Split(vault, NL)
    IN  \A n \in MatchingLines(vault, op.task.description) :
            updateTaskLineStatus(lines[n], getStatusSymbol(allStatuses, op.newStatus))
                = lines[n]

\* C26: when two moves of two different tasks of the same resource have both completed
\* successfully, the lines of both tasks carry their target markers, however the reads
\* and writes of the two moves were interleaved
C26_BothMovesPersist ==
    (Len(ops) = 2 /\ Succeeded(ops[1]) /\ Succeeded(ops[2])
                  /\ DifferentTasks(ops[1], ops[2]))
        => CarriesTargetMarker(ops[1]) /\ CarriesTargetMarker(ops[2])

\* C27: an external modification whose notification the 'modify' listener ignored
\* because isUpdating was true is followed by a render() without any further
\* notification or user action
C27_SuppressedModifyReflected == unseen ~> ~unseen

\* the tasks of the grouped result of the followed call
ResultTasks ==
    UNION {{call.groups[g].tasks[t] : t \in 1..Len(call.groups[g].tasks)} :
              g \in 1..Len(call.groups)}

\* the places of the cards of the emitted board: lane (0 for a board without lanes),
\* cell of the lane, position in the cell
CardPlaces ==
    UNION {{<<0, c, i>> : i \in 1..Len(call.columns[c].val)} : c \in 1..Len(call.columns)}
    \cup UNION {UNION {{<<l, c, i>> : i \in 1..Len(call.lanes[l].val[c].val)} :
                          c \in 1..Len(call.lanes[l].val)} :
                   l \in 1..Len(call.lanes)}

\* the task shown by the card at a place
CardAt(place) ==
    IF place[1] = 0 THEN call.columns[place[2]].val[place[3]]
    ELSE call.lanes[place[1]].val[place[2]].val[place[3]]

\* C28: every task of a grouped result, single or dual, is shown by exactly one card
\* of the emitted board, and every card shows a task of the result
C28_TasksConserved ==
    (call.kind = "materialize" /\ call.rendered) =>
        /\ \A task \in ResultTasks :
              Cardinality({place \in CardPlaces : CardAt(place) = task}) = 1
        /\ \A place \in CardPlaces : CardAt(place) \in ResultTasks

\* the positions at which the resolved column order names the key
OrderPositions(k) == {i \in 1..Len(CallColumnKeys) : CallColumnKeys[i] = k}

\* C29: the column order getColumnOrder resolves for a status-grouped result is a
\* permutation of the available keys, whatever user order the settings tab stored:
\* every available key occurs in it exactly once and it holds no other key
C29_OrderIsPermutation ==
    (Materialized /\ ~PriorityGrouped /\ ~PathGrouped) =>
        /\ \A i \in 1..Len(AvailableKeys) :
              Cardinality(OrderPositions(AvailableKeys[i])) = 1
        /\ \A i \in 1..Len(CallColumnKeys) : Contains(AvailableKeys, CallColumnKeys[i])

\* a saveEditedTask call has settled
Saved == call.kind = "save" /\ call.outcome.settled

\* the lines of the text saveEditedTask read that fit the checkbox pattern and hold
\* the task's description
QualifyingLines == MatchingLines(call.file.content, call.description)

\* C30: saveEditedTask replaces the lowest-indexed line that fits the checkbox pattern
\* and holds the task's description by the edited line and writes all other lines back
\* as they were; when the file does not exist or no line qualifies it throws and
\* writes nothing
C30_SaveReplacesOneLine ==
    Saved =>
        LET lines == Split(call.file.content, NL)
            k == CHOOSE n \in QualifyingLines : \A m \in QualifyingLines : n <= m
        IN  IF ~call.file.exists \/ QualifyingLines = {}
            THEN /\ call.outcome.threw /\ ~call.outcome.wrote
                 /\ call.outcome.content = call.file.content
            ELSE /\ ~call.outcome.threw /\ call.outcome.wrote
                 /\ call.outcome.content
                       = Join(SubSeq(lines, 1, k - 1) \o <<call.editedTaskLine>>
                                  \o SubSeq(lines, k + 1, Len(lines)), NL)

\* two lines qualified, the first was replaced and the second was written back
C30_Witness ==
    /\ Saved /\ call.outcome.wrote
    /\ Cardinality(QualifyingLines) = 2
    /\ Split(call.outcome.content, NL)[1] = call.editedTaskLine
    /\ Split(call.outcome.content, NL)[2] = Split(call.file.content, NL)[2]

====
